---------------------------- MODULE Spec2Model ----------------------------
(***************************************************************************)
(* A model of the orbtk widget core: the scrollable List                   *)
(* (src/src/widgets/list.rs) and the popup ComboBox                        *)
(* (src/src/widgets/combo_box.rs), the Grid (src/src/widgets/grid.rs), the *)
(* ProgressBar (src/src/widgets/progress_bar.rs) and the Window event loop *)
(* (src/src/window.rs).  Each widget is one record-valued                  *)
(* variable whose fields carry the names of the struct's fields.  An       *)
(* Option<u32> is a sequence: << >> is None and <<i>> is Some(i), with i   *)
(* the zero-based index of the source.                                     *)
(***************************************************************************)
EXTENDS Integers, Sequences, FiniteSets, TLC

VARIABLES
    list,       \* the List struct (list.rs:59-67)
    listLast,   \* history: the operation last applied to the List
    combo,      \* the ComboBox struct (combo_box.rs:163-176)
    comboLast,  \* history: the operation last applied to the ComboBox
    panic,      \* "" while running, else the message of the panic that ended the run
    grid,       \* the Grid struct (grid.rs:13-23); entries maps <<col, row>> to a widget
    rects,      \* the rectangle of every widget that can be put into the Grid
    gridAdds,   \* history: the widgets added since Grid::new, while add was the only call
                \* made after the first add; <<0>> once another call came in between
    gridEv,     \* history: the last call of Grid::event
    win,        \* the Window struct (window.rs:67-81), as far as the event loop reads it
    winPc,      \* where the application is: "setup" before exec, then the place in exec
    winCur,     \* the event drain_events is dispatching and the widget index it is at
    winHist,    \* history: deliveries, events taken off the queue, draws, the first stop
    winLast,    \* history: the Window operation last performed
    bar,        \* the ProgressBar struct (progress_bar.rs:15-24)
    canvas      \* history: the widget last drawn, its visibility flag and what it painted

gridVars == <<grid, rects, gridAdds, gridEv>>
winVars == <<win, winPc, winCur, winHist, winLast>>
drawVars == <<bar, canvas>>
otherVars == <<gridVars, winVars, drawVars>>
vars == <<list, listLast, combo, comboLast, panic, gridVars, winVars, drawVars>>

----------------------------------------------------------------------------
(* Bounds of the model *)

MaxEntries == 3          \* entries pushed onto one List
MaxComboEntries == 3     \* entries held by one ComboBox
MaxSelected == 4         \* largest index DownArrow may step an empty ComboBox to

(* Entry heights, in pixels, that push draws from *)
Heights == {100, 200}

(* Rectangles a List is given through Place::position / Place::size *)
ListRects ==
    { [x |-> 2, y |-> 2, width |-> 50, height |-> 200],
      [x |-> 2, y |-> 2, width |-> 50, height |-> 400] }

(* Arguments of direct calls of the public List::scroll *)
ScrollDeltas == {-192, 0, 96, 1000}

(* Wheel ticks carried by Event::Scroll *)
WheelTicks == {-1, 1}

(* Pointer positions carried by Event::Mouse sent to a List *)
ListPoints ==
    { [x |-> 10, y |-> 2],   [x |-> 10, y |-> 101], [x |-> 10, y |-> 102],
      [x |-> 10, y |-> 350], [x |-> 60, y |-> 50] }

(* Entry texts: the push that makes the entry of index k passes the k-th   *)
(* letter, or "A" again.                                                   *)
Letters == <<"A", "B", "C", "D", "E">>
Texts(len) == {Letters[len + 1], "A"}

(* Pointer positions carried by Event::Mouse sent to a ComboBox: inside    *)
(* the box, inside each of the first three popup rows, and off the widget. *)
ComboPoints ==
    { [x |-> 10, y |-> 10], [x |-> 10, y |-> 30], [x |-> 10, y |-> 60],
      [x |-> 10, y |-> 90], [x |-> 10, y |-> 500] }

----------------------------------------------------------------------------
(* Values shared by the widgets *)

None == << >>
Some(i) == <<i>>

Max(a, b) == IF a >= b THEN a ELSE b
Min(a, b) == IF a <= b THEN a ELSE b

(* u32 arithmetic: `a - b` on u32 wraps modulo 2^32 when overflow checks   *)
(* are off and panics when they are on.  u32::MAX (4294967295) is beyond   *)
(* the integers TLC computes with, so the largest of those stands for it:  *)
(* like u32::MAX it lies above every index and length the model reaches.   *)
u32_MAX == 2147483647
(* a subtraction that forgets to subtract *)
sub_nothing(a, b) == a

wrapping_sub(a, b) == IF a >= b THEN a - b ELSE u32_MAX - (b - a - 1)

(* Rect::contains: the rectangle is half open on its right and bottom edge *)
contains(r, p) ==
    /\ p.x >= r.x
    /\ p.x < r.x + r.width
    /\ p.y >= r.y
    /\ p.y < r.y + r.height

Rect(x, y, w, h) == [x |-> x, y |-> y, width |-> w, height |-> h]

(* CheckSet::check_set: store the value, report whether it changed *)
check_set(old, new) == old # new

(* Events.  One record shape for every variant; the fields a variant does  *)
(* not carry hold a fixed filler.                                          *)
Origin == [x |-> 0, y |-> 0]
Key(t) == [type |-> t, point |-> Origin, left_button |-> FALSE, y |-> 0]
Mouse(p, b) == [type |-> "Mouse", point |-> p, left_button |-> b, y |-> 0]
Scroll(dy) == [type |-> "Scroll", point |-> Origin, left_button |-> FALSE, y |-> dy]
NoEvent == Key("")

----------------------------------------------------------------------------
(* List (src/src/widgets/list.rs) *)

ListNew ==
    [ rect |-> Rect(0, 0, 0, 0),
      v_scroll |-> 0,
      current_height |-> 0,
      entries |-> << >>,
      pressed |-> FALSE,
      selected |-> None,
      visible |-> TRUE ]

EntryNew(h) == [height |-> h, highlighted |-> FALSE]

(* push that appends the entry and leaves current_height alone *)
push_no_height(l, h) ==
    [l EXCEPT !.entries = Append(@, EntryNew(h))]

push(l, h) ==
    [l EXCEPT !.entries = Append(@, EntryNew(h)),
              !.current_height = @ + h]

(* the row scan that forgets the scroll offset *)
RECURSIVE scan_entries_no_scroll(_, _, _, _)
scan_entries_no_scroll(l, p, i, current_y) ==
    IF i > Len(l.entries) THEN None
    ELSE IF contains(Rect(l.rect.x, l.rect.y + current_y,
                          l.rect.width, l.entries[i].height), p)
         THEN Some(i - 1)
         ELSE scan_entries_no_scroll(l, p, i + 1, current_y + l.entries[i].height)

RECURSIVE scan_entries(_, _, _, _)
scan_entries(l, p, i, current_y) ==
    IF i > Len(l.entries) THEN None
    ELSE IF contains(Rect(l.rect.x, l.rect.y + current_y - l.v_scroll,
                          l.rect.width, l.entries[i].height), p)
         THEN Some(i - 1)
         ELSE scan_entries(l, p, i + 1, current_y + l.entries[i].height)

get_entry_index(l, p) ==
    IF contains(l.rect, p) THEN scan_entries(l, p, 1, 0) ELSE None

(* scroll that clamps at 0 and not at the maximum *)
scroll_no_upper_clamp(l, y) ==
    [l EXCEPT !.v_scroll = IF l.v_scroll + y < 0 THEN 0 ELSE l.v_scroll + y]

(* scroll that subtracts the delta *)
scroll_inverted(l, y) ==
    LET set_to == l.v_scroll - y
        max == Max(0, l.current_height - l.rect.height)
    IN  [l EXCEPT !.v_scroll = IF set_to < 0 THEN 0
                               ELSE IF set_to > max THEN max
                               ELSE set_to]

scroll(l, y) ==
    LET set_to == l.v_scroll + y
        max == Max(0, l.current_height - l.rect.height)
    IN  [l EXCEPT !.v_scroll = IF set_to < 0 THEN 0
                               ELSE IF set_to > max THEN max
                               ELSE set_to]

RECURSIVE heights_before(_, _)
heights_before(entries, i) ==
    IF i = 0 THEN 0 ELSE heights_before(entries, i - 1) + entries[i].height

(* change_selection that leaves the old entry highlighted *)
change_selection_keeps_highlight(l, i) ==
    IF i < Len(l.entries)
    THEN LET l2 == [l EXCEPT !.entries[i + 1].highlighted = TRUE,
                             !.selected = Some(i)]
             y == heights_before(l2.entries, i)
             h == l2.entries[i + 1].height
             v_scroll == l2.v_scroll
         IN  IF y < v_scroll
             THEN scroll(l2, y - v_scroll)
             ELSE IF y + h > v_scroll + l2.rect.height
                  THEN scroll(l2, (y + h) - (v_scroll + l2.rect.height))
                  ELSE l2
    ELSE l

change_selection(l, i) ==
    LET l1 == IF l.selected # None /\ l.selected[1] < Len(l.entries)
              THEN [l EXCEPT !.entries[l.selected[1] + 1].highlighted = FALSE]
              ELSE l
    IN  IF i < Len(l1.entries)
        THEN LET l2 == [l1 EXCEPT !.entries[i + 1].highlighted = TRUE,
                                  !.selected = Some(i)]
                 y == heights_before(l2.entries, i)
                 h == l2.entries[i + 1].height
                 v_scroll == l2.v_scroll
             IN  IF y < v_scroll
                 THEN scroll(l2, y - v_scroll)
                 ELSE IF y + h > v_scroll + l2.rect.height
                      THEN scroll(l2, (y + h) - (v_scroll + l2.rect.height))
                      ELSE l2
        ELSE l1

(* The outcome of one call of an event handler *)
Outcome(w, redraw, ret, click, msg) ==
    [widget |-> w, redraw |-> redraw, ret |-> ret, click |-> click, panic |-> msg]

ListMouse(l, point, left_button, focused) ==
    LET inside == contains(l.rect, point)
        pressed == IF inside THEN left_button
                   ELSE IF ~left_button THEN FALSE ELSE l.pressed
        click == inside /\ ~left_button /\ check_set(l.pressed, FALSE)
        l1 == [l EXCEPT !.pressed = pressed]
        hit == get_entry_index(l1, point)
    IN  IF hit # None
        THEN Outcome(IF l1.selected # hit THEN change_selection(l1, hit[1]) ELSE l1,
                     check_set(l.pressed, pressed) \/ l1.selected # hit,
                     focused,
                     IF click THEN hit ELSE None,
                     "")
        ELSE Outcome(l1, check_set(l.pressed, pressed), focused, None, "")

(* overflow_checks: whether the build panics on integer overflow *)
ListEvent(l, event, focused, overflow_checks) ==
    CASE event.type = "Mouse" ->
            ListMouse(l, event.point, event.left_button, focused)
      [] event.type = "UpArrow" ->
            IF l.selected = None
            THEN Outcome(change_selection(l, 0), TRUE, focused, None, "")
            ELSE IF l.selected[1] > 0
                 THEN Outcome(change_selection(l, l.selected[1] - 1), TRUE, focused, None, "")
                 ELSE Outcome(l, FALSE, focused, None, "")
      [] event.type = "DownArrow" ->
            IF l.selected = None
            THEN Outcome(change_selection(l, 0), TRUE, focused, None, "")
            ELSE IF Len(l.entries) = 0 /\ overflow_checks
                 THEN Outcome(l, FALSE, focused, None, "List DownArrow: attempt to subtract with overflow")
                 ELSE IF l.selected[1] < wrapping_sub(Len(l.entries), 1)
                      THEN Outcome(change_selection(l, l.selected[1] + 1), TRUE, focused, None, "")
                      ELSE Outcome(l, FALSE, focused, None, "")
      [] event.type = "Home" ->
            Outcome(change_selection(l, 0), TRUE, focused, None, "")
      [] event.type = "End" ->
            IF Len(l.entries) = 0 /\ overflow_checks
            THEN Outcome(l, FALSE, focused, None, "List End: attempt to subtract with overflow")
            ELSE Outcome(change_selection(l, wrapping_sub(Len(l.entries), 1)),
                         TRUE, focused, None, "")
      [] event.type = "Enter" ->
            Outcome(l, FALSE, focused,
                    IF l.selected # None /\ l.selected[1] < Len(l.entries)
                    THEN l.selected ELSE None,
                    "")
      [] event.type = "Scroll" ->
            Outcome(scroll(l, event.y * (-96)), TRUE, focused, None, "")
      [] OTHER -> Outcome(l, FALSE, focused, None, "")

(* The handler evaluates `len as u32 - 1` with len = 0 *)
ListOverflows(l, event) ==
    /\ Len(l.entries) = 0
    /\ \/ event.type = "End"
       \/ event.type = "DownArrow" /\ l.selected # None

ListEvents ==
    { Key(t) : t \in {"UpArrow", "DownArrow", "Home", "End", "Enter"} }
    \cup { Scroll(dy) : dy \in WheelTicks }
    \cup { Mouse(p, b) : p \in ListPoints, b \in BOOLEAN }

Did(op, event, arg) == [op |-> op, event |-> event, arg |-> arg]

ListPush ==
    /\ panic = ""
    /\ Len(list.entries) < MaxEntries
    /\ \E h \in Heights :
          /\ list' = push(list, h)
          /\ listLast' = Did("push", NoEvent, h)
    /\ UNCHANGED <<combo, comboLast, panic>>
    /\ UNCHANGED otherVars

(* Place::position and Place::size store a new rectangle in the pub rect cell *)
ListPlace ==
    /\ panic = ""
    /\ \E r \in ListRects :
          /\ list' = [list EXCEPT !.rect = r]
          /\ listLast' = Did("place", NoEvent, r.height)
    /\ UNCHANGED <<combo, comboLast, panic>>
    /\ UNCHANGED otherVars

ListScroll ==
    /\ panic = ""
    /\ \E d \in ScrollDeltas :
          /\ list' = scroll(list, d)
          /\ listLast' = Did("scroll", NoEvent, d)
    /\ UNCHANGED <<combo, comboLast, panic>>
    /\ UNCHANGED otherVars

ListHandle ==
    /\ panic = ""
    /\ \E event \in ListEvents, focused \in BOOLEAN :
       \E overflow_checks \in IF ListOverflows(list, event) THEN BOOLEAN ELSE {FALSE} :
          LET out == ListEvent(list, event, focused, overflow_checks)
          IN  /\ list' = out.widget
              /\ panic' = out.panic
              /\ listLast' = Did("event", event, 0)
    /\ UNCHANGED <<combo, comboLast>>
    /\ UNCHANGED otherVars

ListNext == ListPush \/ ListPlace \/ ListScroll \/ ListHandle

----------------------------------------------------------------------------
(* ComboBox (src/src/widgets/combo_box.rs) *)

ComboBoxNew ==
    [ rect |-> Rect(0, 0, 332, 28),
      pressed |-> FALSE,
      activated |-> FALSE,
      selected |-> None,
      entries |-> << >>,
      text |-> "",
      flyout_height |-> 0,
      visible |-> TRUE ]

ComboEntryNew(text, index) ==
    [ rect |-> Rect(0, 0, 0, 0),
      text |-> text,
      hover |-> FALSE,
      pressed |-> FALSE,
      index |-> index,
      active |-> FALSE ]

selected(c) == IF c.selected # None THEN c.selected[1] ELSE -1

combo_change_selection(c, i) ==
    LET c1 == IF c.selected # None /\ c.selected[1] < Len(c.entries)
              THEN [c EXCEPT !.entries[c.selected[1] + 1].active = FALSE]
              ELSE c
        c2 == [c1 EXCEPT !.selected = Some(i)]
    IN  IF i < Len(c2.entries)
        THEN [c2 EXCEPT !.entries[i + 1].active = TRUE,
                        !.text = c2.entries[i + 1].text]
        ELSE c2

(* push that selects entry 0 after every push *)
combo_push_always_selects(c, text) ==
    LET len == Len(c.entries)
        entry == [ComboEntryNew(text, len) EXCEPT
                     !.rect = Rect(c.rect.x + 1,
                                   c.rect.y + c.rect.height * (len + 1),
                                   c.rect.width - 2,
                                   c.rect.height)]
        c1 == [c EXCEPT !.flyout_height = @ + c.rect.height,
                        !.entries = Append(@, entry)]
    IN  combo_change_selection(c1, 0)

combo_push(c, text) ==
    LET len == Len(c.entries)
        entry == [ComboEntryNew(text, len) EXCEPT
                     !.rect = Rect(c.rect.x + 1,
                                   c.rect.y + c.rect.height * (len + 1),
                                   c.rect.width - 2,
                                   c.rect.height)]
        c1 == [c EXCEPT !.flyout_height = @ + c.rect.height,
                        !.entries = Append(@, entry)]
    IN  IF Len(c1.entries) = 1 THEN combo_change_selection(c1, 0) ELSE c1

(* pop: the RefMut that `self.entries.borrow_mut()` yields in the head of  *)
(* the `if let` lives until the end of its body, so the first              *)
(* `self.entries.borrow()` of change_selection(0) panics with BorrowError. *)
(* With a selection that borrow is the first statement of                  *)
(* change_selection; with none it follows `selected.set(Some(0))`.         *)
combo_pop(c) ==
    IF Len(c.entries) = 0
    THEN Outcome(c, FALSE, FALSE, None, "")
    ELSE LET c1 == [c EXCEPT !.entries = SubSeq(@, 1, Len(@) - 1)]
         IN  Outcome(IF c1.selected # None THEN c1
                     ELSE [c1 EXCEPT !.selected = Some(0)],
                     FALSE, FALSE, None,
                     "ComboBox pop: already mutably borrowed: BorrowError")

(* Entry::event for Event::Mouse: the entry after the event, and the bool  *)
(* it returns (true on a click, else the focused flag it was passed).      *)
EntryMouse(e, point, left_button, focused) ==
    LET inside == contains(e.rect, point)
        pressed == IF inside THEN left_button
                   ELSE IF ~left_button THEN FALSE ELSE e.pressed
        click == inside /\ ~left_button /\ check_set(e.pressed, FALSE)
    IN  [ entry |-> [e EXCEPT !.hover = inside, !.pressed = pressed],
          redraw |-> check_set(e.hover, inside) \/ check_set(e.pressed, pressed),
          ret |-> click \/ focused ]

(* The loop of ComboBox::event over the popup entries, from entry i on.    *)
(* acc holds the ComboBox so far and the ignore_event and redraw flags.    *)
RECURSIVE entries_loop(_, _, _, _, _)
entries_loop(acc, point, left_button, focused, i) ==
    IF i > Len(acc.c.entries) THEN acc
    ELSE LET r == EntryMouse(acc.c.entries[i], point, left_button, focused)
             c1 == [acc.c EXCEPT !.entries[i] = r.entry]
             c2 == IF r.ret
                   THEN [combo_change_selection(c1, c1.entries[i].index)
                            EXCEPT !.activated = FALSE]
                   ELSE c1
         IN  entries_loop([ c |-> c2,
                            ignore_event |-> acc.ignore_event \/ r.ret,
                            redraw |-> acc.redraw \/ r.redraw
                                       \/ (r.ret /\ check_set(c1.activated, FALSE)) ],
                          point, left_button, focused, i + 1)

ComboMouse(c, point, left_button, focused) ==
    LET start == [c |-> c, ignore_event |-> FALSE, redraw |-> FALSE]
        acc == IF c.activated
               THEN entries_loop(start, point, left_button, focused, 1)
               ELSE start
        c1 == acc.c
        c2 == IF contains(c1.rect, point)
              THEN IF left_button
                   THEN [c1 EXCEPT !.pressed = ~c1.pressed, !.activated = TRUE]
                   ELSE IF ~c1.pressed
                        THEN [c1 EXCEPT !.activated = FALSE]
                        ELSE c1
              ELSE IF ~acc.ignore_event
                   THEN IF left_button
                        THEN [c1 EXCEPT !.pressed = FALSE]
                        ELSE IF ~c1.pressed
                             THEN [c1 EXCEPT !.activated = FALSE]
                             ELSE c1
                   ELSE c1
    IN  Outcome(c2, acc.redraw \/ check_set(c1.activated, c2.activated),
                focused, None, "")

(* UpArrow that moves the selection only while the popup is open *)
ComboUpArrow_needs_activated(c, focused) ==
    IF ~c.activated
    THEN Outcome(c, FALSE, focused, None, "")
    ELSE IF c.selected = None
         THEN Outcome(combo_change_selection(c, 0), TRUE, focused, None, "")
         ELSE IF c.selected[1] > 0
              THEN Outcome(combo_change_selection(c, c.selected[1] - 1),
                           TRUE, focused, None, "")
              ELSE Outcome(c, FALSE, focused, None, "")

ComboUpArrow(c, focused) ==
    IF c.selected = None
    THEN Outcome(combo_change_selection(c, 0), TRUE, focused, None, "")
    ELSE IF c.selected[1] > 0
         THEN Outcome(combo_change_selection(c, c.selected[1] - 1),
                      TRUE, focused, None, "")
         ELSE Outcome(c, FALSE, focused, None, "")

(* DownArrow that moves the selection whether or not the popup is open *)
ComboDownArrow_ignores_activated(c, focused, overflow_checks) ==
    IF c.selected = None
    THEN Outcome(combo_change_selection(c, 0), TRUE, focused, None, "")
    ELSE IF Len(c.entries) = 0 /\ overflow_checks
         THEN Outcome(c, FALSE, focused, None,
                      "ComboBox DownArrow: attempt to subtract with overflow")
         ELSE IF c.selected[1] < wrapping_sub(Len(c.entries), 1)
              THEN Outcome(combo_change_selection(c, c.selected[1] + 1),
                           TRUE, focused, None, "")
              ELSE Outcome(c, FALSE, focused, None, "")

ComboDownArrow(c, focused, overflow_checks) ==
    IF ~c.activated THEN Outcome(c, FALSE, focused, None, "")
    ELSE IF c.selected = None
    THEN Outcome(combo_change_selection(c, 0), TRUE, focused, None, "")
    ELSE IF Len(c.entries) = 0 /\ overflow_checks
         THEN Outcome(c, FALSE, focused, None,
                      "ComboBox DownArrow: attempt to subtract with overflow")
         ELSE IF c.selected[1] < wrapping_sub(Len(c.entries), 1)
              THEN Outcome(combo_change_selection(c, c.selected[1] + 1),
                           TRUE, focused, None, "")
              ELSE Outcome(c, FALSE, focused, None, "")

ComboEnter(c, focused) ==
    IF check_set(c.activated, FALSE)
    THEN Outcome([c EXCEPT !.activated = FALSE, !.pressed = FALSE],
                 TRUE, focused, None, "")
    ELSE Outcome(c, FALSE, focused, None, "")

ComboEvent(c, event, focused, overflow_checks) ==
    IF ~c.visible THEN Outcome(c, FALSE, focused, None, "")
    ELSE CASE event.type = "Mouse" ->
                ComboMouse(c, event.point, event.left_button, focused)
           [] event.type = "UpArrow" -> ComboUpArrow(c, focused)
           [] event.type = "DownArrow" -> ComboDownArrow(c, focused, overflow_checks)
           [] event.type = "Enter" -> ComboEnter(c, focused)
           [] OTHER -> Outcome(c, FALSE, focused, None, "")

(* The handler evaluates `entries.len() as u32 - 1` with len = 0 *)
ComboOverflows(c, event) ==
    /\ c.visible
    /\ event.type = "DownArrow"
    /\ c.activated
    /\ c.selected # None
    /\ Len(c.entries) = 0

ComboEvents ==
    { Key(t) : t \in {"UpArrow", "DownArrow", "Enter"} }
    \cup { Mouse(p, b) : p \in ComboPoints, b \in BOOLEAN }

(* text: the text pushed, or the text of the entry pop removed *)
ComboDid(op, event, text) == [op |-> op, event |-> event, text |-> text]

ComboPush ==
    /\ panic = ""
    /\ Len(combo.entries) < MaxComboEntries
    /\ \E text \in Texts(Len(combo.entries)) :
          /\ combo' = combo_push(combo, text)
          /\ comboLast' = ComboDid("push", NoEvent, text)
    /\ UNCHANGED <<list, listLast, panic>>
    /\ UNCHANGED otherVars

ComboPop ==
    /\ panic = ""
    /\ LET out == combo_pop(combo)
       IN  /\ combo' = out.widget
           /\ panic' = out.panic
           /\ comboLast' = ComboDid("pop", NoEvent,
                                    IF Len(combo.entries) = 0 THEN ""
                                    ELSE combo.entries[Len(combo.entries)].text)
    /\ UNCHANGED <<list, listLast>>
    /\ UNCHANGED otherVars

ComboVisible ==
    /\ panic = ""
    /\ \E flag \in BOOLEAN :
          /\ combo' = [combo EXCEPT !.visible = flag]
          /\ comboLast' = ComboDid("visible", NoEvent, "")
    /\ UNCHANGED <<list, listLast, panic>>
    /\ UNCHANGED otherVars

ComboHandle ==
    /\ panic = ""
    /\ \E event \in ComboEvents, focused \in BOOLEAN :
       \E overflow_checks \in IF ComboOverflows(combo, event) THEN BOOLEAN ELSE {FALSE} :
          LET out == ComboEvent(combo, event, focused, overflow_checks)
          IN  /\ selected(out.widget) <= MaxSelected
              /\ combo' = out.widget
              /\ panic' = out.panic
              /\ comboLast' = ComboDid("event", event, "")
    /\ UNCHANGED <<list, listLast>>
    /\ UNCHANGED otherVars

ComboNext == ComboPush \/ ComboPop \/ ComboVisible \/ ComboHandle

----------------------------------------------------------------------------
(* Properties of the List *)

RECURSIVE SumHeights(_)
SumHeights(entries) ==
    IF entries = << >> THEN 0
    ELSE entries[1].height + SumHeights(Tail(entries))

MaxScroll(l) == Max(0, l.current_height - l.rect.height)
Clamp(v, lo, hi) == Max(lo, Min(v, hi))

(* C1: after every sequence of push calls the content height              *)
(* (current_height) is the sum of the heights of the pushed entries.       *)
C1_ContentHeightIsSum ==
    list.current_height = SumHeights(list.entries)

C1_Witness ==
    /\ listLast.op = "push"
    /\ Len(list.entries) = 3
    /\ list.current_height = 500

(* Top of the row of the entry with zero-based index k, in window          *)
(* coordinates; RowTop(l, Len(l.entries)) is the bottom of the last row.   *)
RowTop(l, k) == l.rect.y + SumHeights(SubSeq(l.entries, 1, k)) - l.v_scroll

InViewport(l, p) ==
    /\ l.rect.x <= p.x /\ p.x < l.rect.x + l.rect.width
    /\ l.rect.y <= p.y /\ p.y < l.rect.y + l.rect.height

InRow(l, p, k) ==
    /\ RowTop(l, k) <= p.y
    /\ p.y < RowTop(l, k) + l.entries[k + 1].height

(* The points tested in a state: every corner case of the viewport's edges *)
(* and of each row's first and last pixel line, and the pointer positions. *)
HitPoints(l) ==
    LET xs == {l.rect.x - 1, l.rect.x, l.rect.x + l.rect.width - 1,
               l.rect.x + l.rect.width}
        ys == {l.rect.y - 1, l.rect.y, l.rect.y + l.rect.height - 1,
               l.rect.y + l.rect.height}
              \cup { RowTop(l, k) + d : k \in 0..Len(l.entries), d \in {-1, 0} }
    IN  { [x |-> x, y |-> y] : x \in xs, y \in ys } \cup ListPoints

(* C2: a point inside the viewport and inside the row of entry k resolves  *)
(* to Some(k); a point outside the viewport, or below the last row,        *)
(* resolves to None.                                                       *)
C2_HitTest ==
    \A p \in HitPoints(list) :
        /\ \A k \in 0..(Len(list.entries) - 1) :
              (InViewport(list, p) /\ InRow(list, p, k))
                  => get_entry_index(list, p) = Some(k)
        /\ (~InViewport(list, p) \/ p.y >= RowTop(list, Len(list.entries)))
              => get_entry_index(list, p) = None

C2_Witness ==
    /\ Len(list.entries) = 3
    /\ list.v_scroll > 0
    /\ \E p \in HitPoints(list) :
          /\ InViewport(list, p)
          /\ InRow(list, p, 2)
          /\ p.y = RowTop(list, 2)
          /\ get_entry_index(list, p) = Some(2)
    /\ \E p \in HitPoints(list) :
          /\ InViewport(list, p)
          /\ p.y >= RowTop(list, Len(list.entries))
          /\ get_entry_index(list, p) = None

(* C3: scroll(d) sets the offset to old offset + d clamped into            *)
(* [0, max(0, content_height - viewport_height)], and a further scroll(0)  *)
(* changes nothing.                                                        *)
C3_ScrollClamps ==
    [][ listLast'.op = "scroll" =>
          /\ list'.v_scroll = Clamp(list.v_scroll + listLast'.arg, 0, MaxScroll(list))
          /\ scroll(list', 0) = list' ]_vars

C3_Witness ==
    /\ listLast.op = "scroll"
    /\ listLast.arg = 1000
    /\ list.v_scroll = 300
    /\ MaxScroll(list) = 300

(* C4: in every reachable state, resizes of the viewport included,         *)
(* 0 <= v_scroll <= max(0, content_height - viewport_height).              *)
C4_ScrollInRange ==
    /\ 0 <= list.v_scroll
    /\ list.v_scroll <= MaxScroll(list)

Scenario500 ==
    /\ list.current_height = 500
    /\ list.rect.height = 200

(* C5 as stated: with content height 500, viewport height 200 and offset   *)
(* 0, a Scroll event with wheel delta y = 1 ends with offset 96.           *)
C5_WheelUpGives96 ==
    [][ (Scenario500 /\ list.v_scroll = 0
            /\ listLast'.op = "event" /\ listLast'.event = Scroll(1))
          => list'.v_scroll = 96 ]_vars

(* C5 amended: in that state wheel delta y = 1 leaves the offset at 0      *)
(* (0 + 1 * -96 clamped at 0), and wheel delta y = -1 ends with offset 96. *)
C5_WheelUpStaysAt0 ==
    [][ (Scenario500 /\ list.v_scroll = 0 /\ listLast'.op = "event")
          => /\ listLast'.event = Scroll(1) => list'.v_scroll = 0
             /\ listLast'.event = Scroll(-1) => list'.v_scroll = 96 ]_vars

C5_Witness ==
    /\ Scenario500
    /\ listLast.op = "event"
    /\ listLast.event = Scroll(1)
    /\ list.v_scroll = 0

(* C6: a List with zero entries handles UpArrow, DownArrow, Home and End   *)
(* without panicking and keeps the selection None.                         *)
C6_EmptyListKeys ==
    ( /\ Len(list.entries) = 0
      /\ listLast.op = "event"
      /\ listLast.event.type \in {"UpArrow", "DownArrow", "Home", "End"} )
    => (panic = "" /\ list.selected = None)

----------------------------------------------------------------------------
(* Properties of the ComboBox *)

ActiveEntries(c) == { k \in 0..(Len(c.entries) - 1) : c.entries[k + 1].active }

(* C7: whenever the ComboBox holds n >= 1 entries, the selected index is   *)
(* Some(i) with 0 <= i <= n - 1.                                           *)
C7_SelectedInRange ==
    Len(combo.entries) >= 1 =>
        /\ combo.selected # None
        /\ 0 <= combo.selected[1]
        /\ combo.selected[1] <= Len(combo.entries) - 1

(* C8: after a pop that leaves at least one entry the selected index is 0, *)
(* entry 0 is the only active entry and the text shown is entry 0's text.  *)
C8_PopSelectsFirst ==
    (comboLast.op = "pop" /\ Len(combo.entries) >= 1) =>
        /\ combo.selected = Some(0)
        /\ ActiveEntries(combo) = {0}
        /\ combo.text = combo.entries[1].text

(* C9: a pop that removes the last remaining entry does not fail and       *)
(* leaves no selection (selected() = -1) and the empty string as text.     *)
C9_PopLastEntry ==
    (comboLast.op = "pop" /\ comboLast.text # "" /\ Len(combo.entries) = 0) =>
        /\ panic = ""
        /\ selected(combo) = -1
        /\ combo.text = ""

(* C10: DownArrow sent to a visible ComboBox that holds n >= 1 entries and *)
(* has selected index i leaves the selection alone while the popup is      *)
(* closed and makes it min(i + 1, n - 1) while the popup is open; with     *)
(* entries [A, B, C] and selected index 0 that is 0 and 1.                 *)
C10_DownArrow ==
    [][ ( /\ comboLast'.op = "event"
          /\ comboLast'.event.type = "DownArrow"
          /\ combo.visible
          /\ Len(combo.entries) >= 1 )
        => /\ combo.selected # None
           /\ combo'.selected =
                 IF combo.activated
                 THEN Some(Min(combo.selected[1] + 1, Len(combo.entries) - 1))
                 ELSE combo.selected ]_vars

C10_Witness ==
    /\ comboLast.op = "event"
    /\ comboLast.event.type = "DownArrow"
    /\ combo.visible
    /\ combo.activated
    /\ [k \in 1..Len(combo.entries) |-> combo.entries[k].text] = <<"A", "B", "C">>
    /\ combo.selected = Some(1)
    /\ ActiveEntries(combo) = {1}
    /\ combo.text = "B"

----------------------------------------------------------------------------
(* Grid (src/src/widgets/grid.rs)                                          *)

(* The widgets handed to the Grid: widget w is created with the size       *)
(* WidgetSizes[w] at the origin.  A widget sits in at most one cell; one    *)
(* that insert replaces is dropped, and the next widget w is a new one.    *)
NumGridWidgets == 3
WidgetSizes == <<<<10, 10>>, <<20, 5>>, <<5, 30>>, <<20, 30>>, <<7, 7>>>>
GridWidgets == 1..NumGridWidgets
GridCells == {<<0, 0>>, <<1, 0>>, <<0, 1>>}
GridColumnCounts == {2}
GridSpacings == {<<0, 0>>, <<3, 2>>}
GridPositions == {<<0, 0>>, <<7, 5>>}

RectDefault == Rect(0, 0, 0, 0)

WidgetNew(w) == Rect(0, 0, WidgetSizes[w][1], WidgetSizes[w][2])

GridNew ==
    [rect |-> RectDefault, space_x |-> 0, space_y |-> 0, columns |-> 0,
     row_count |-> 0, column_count |-> 0, entries |-> << >>,
     focused |-> None, visible |-> TRUE]

(* BTreeMap<(usize, usize), _> iterates its keys in tuple order.           *)
CellLess(a, b) == a[1] < b[1] \/ (a[1] = b[1] /\ a[2] < b[2])

RECURSIVE SortedCells(_)
SortedCells(S) ==
    IF S = {} THEN << >>
    ELSE LET m == CHOOSE c \in S : \A d \in S : c = d \/ CellLess(c, d)
         IN  <<m>> \o SortedCells(S \ {m})

map_insert(entries, cell, w) ==
    [c \in (DOMAIN entries) \cup {cell} |-> IF c = cell THEN w ELSE entries[c]]

(* while col >= cols.len() { cols.push(Rect::default()) }                  *)
RECURSIVE grow(_, _)
grow(v, i) == IF i >= Len(v) THEN grow(Append(v, RectDefault), i) ELSE v

(* One pass of the measuring loop of arrange: the cell's column and row    *)
(* take the widget's width and height where these are not smaller.         *)
measure(acc, cell, rect) ==
    LET col == cell[1] + 1
        row == cell[2] + 1
        cols == grow(acc.cols, cell[1])
        rows == grow(acc.rows, cell[2])
    IN  [cols |-> [cols EXCEPT
                     ![col].width = IF rect.width >= @ THEN rect.width ELSE @,
                     ![col].height = IF rect.height >= @ THEN rect.height ELSE @],
         rows |-> [rows EXCEPT
                     ![row].width = IF rect.width >= @ THEN rect.width ELSE @,
                     ![row].height = IF rect.height >= @ THEN rect.height ELSE @]]

RECURSIVE measure_all(_, _, _, _, _)
measure_all(g, rs, cells, i, acc) ==
    IF i > Len(cells) THEN acc
    ELSE measure_all(g, rs, cells, i + 1, measure(acc, cells[i], rs[g.entries[cells[i]]]))

(* col.x = x; x += col.width as i32 + space_x                              *)
RECURSIVE place_x(_, _, _, _)
place_x(cols, i, x, space_x) ==
    IF i > Len(cols) THEN cols
    ELSE place_x([cols EXCEPT ![i].x = x], i + 1, x + cols[i].width + space_x, space_x)

(* row.y = y; y += row.height as i32 + space_y                             *)
RECURSIVE place_y(_, _, _, _)
place_y(rows, i, y, space_y) ==
    IF i > Len(rows) THEN rows
    ELSE place_y([rows EXCEPT ![i].y = y], i + 1, y + rows[i].height + space_y, space_y)

(* The columns and rows arrange computes before it moves any widget.       *)
grid_cols(g, rs) ==
    LET m == measure_all(g, rs, SortedCells(DOMAIN g.entries), 1,
                         [cols |-> << >>, rows |-> << >>])
    IN  place_x(m.cols, 1, g.rect.x, g.space_x)

grid_rows(g, rs) ==
    LET m == measure_all(g, rs, SortedCells(DOMAIN g.entries), 1,
                         [cols |-> << >>, rows |-> << >>])
    IN  place_y(m.rows, 1, g.rect.y, g.space_y)

RECURSIVE set_rects(_, _, _, _, _, _, _)
set_rects(g, rs, cells, i, cols, rows, resize) ==
    IF i > Len(cells) THEN rs
    ELSE LET col == cells[i][1] + 1
             row == cells[i][2] + 1
             w == g.entries[cells[i]]
             moved == [rs[w] EXCEPT !.x = cols[col].x, !.y = rows[row].y]
             rect == IF resize
                     THEN [moved EXCEPT !.width = cols[col].width,
                                        !.height = rows[row].height]
                     ELSE moved
         IN  set_rects(g, [rs EXCEPT ![w] = rect], cells, i + 1, cols, rows, resize)

InGrid(g) == {g.entries[c] : c \in DOMAIN g.entries}

arrange_relative(g, rs, resize) ==
    LET cols == grid_cols(g, rs)
        rows == grid_rows(g, rs)
        moved == set_rects(g, rs, SortedCells(DOMAIN g.entries), 1, cols, rows, resize)
    IN  [w \in DOMAIN rs |->
            IF w \in InGrid(g)
            THEN [moved[w] EXCEPT !.x = @ + rs[w].x, !.y = @ + rs[w].y]
            ELSE moved[w]]

(* Grid::arrange: the new rectangles of the widgets.                       *)
arrange(g, rs, resize) ==
    LET cols == grid_cols(g, rs)
        rows == grid_rows(g, rs)
    IN  set_rects(g, rs, SortedCells(DOMAIN g.entries), 1, cols, rows, resize)

(* The cell Grid::add puts its widget into.                                *)
add_cell(g) ==
    IF g.column_count = g.columns
    THEN <<0, g.row_count + 1>>
    ELSE <<g.column_count, g.row_count>>

add_never_wraps(st, w) ==
    LET g == [st.grid EXCEPT
                !.entries = map_insert(@, <<st.grid.column_count, st.grid.row_count>>, w),
                !.column_count = @ + 1]
    IN  [grid |-> g, rects |-> arrange(g, st.rects, FALSE)]

(* Grid::add, on the pair of the Grid and the widgets' rectangles.         *)
add(st, w) ==
    LET cell == add_cell(st.grid)
        g == [st.grid EXCEPT !.row_count = cell[2],
                             !.column_count = cell[1] + 1,
                             !.entries = map_insert(@, cell, w)]
    IN  [grid |-> g, rects |-> arrange(g, st.rects, FALSE)]

(* Grid::insert.                                                           *)
insert(st, cell, w) ==
    LET g == [st.grid EXCEPT !.entries = map_insert(@, cell, w)]
    IN  [grid |-> g, rects |-> arrange(g, st.rects, FALSE)]

(* Place::position of the Grid.                                            *)
position(st, x, y) ==
    LET g == [st.grid EXCEPT !.rect.x = x, !.rect.y = y]
    IN  [grid |-> g, rects |-> arrange(g, st.rects, FALSE)]

(* The history of adds: kept while the Grid is only configured and then    *)
(* only added to.                                                          *)
Configured(adds) == IF adds = << >> THEN << >> ELSE <<0>>
Added(adds, w) == IF adds = <<0>> THEN <<0>> ELSE Append(adds, w)

GridColumns ==
    \E n \in GridColumnCounts :
        /\ panic = ""
        /\ grid' = [grid EXCEPT !.columns = n]
        /\ gridAdds' = Configured(gridAdds)
        /\ UNCHANGED <<rects, list, listLast, combo, comboLast, panic, winVars, drawVars, gridEv>>

GridSpacing ==
    \E s \in GridSpacings :
        /\ panic = ""
        /\ grid' = [grid EXCEPT !.space_x = s[1], !.space_y = s[2]]
        /\ gridAdds' = Configured(gridAdds)
        /\ UNCHANGED <<rects, list, listLast, combo, comboLast, panic, winVars, drawVars, gridEv>>

GridPosition ==
    \E p \in GridPositions :
        LET st == position([grid |-> grid, rects |-> rects], p[1], p[2])
        IN  /\ panic = ""
            /\ grid' = st.grid
            /\ rects' = st.rects
            /\ gridAdds' = Configured(gridAdds)
            /\ UNCHANGED <<list, listLast, combo, comboLast, panic, winVars, drawVars, gridEv>>

GridAdd ==
    \E w \in GridWidgets \ InGrid(grid) :
        LET st == add([grid |-> grid, rects |-> rects], w)
        IN  /\ panic = ""
            /\ add_cell(grid) \in GridCells
            /\ grid' = st.grid
            /\ rects' = st.rects
            /\ gridAdds' = Added(gridAdds, w)
            /\ UNCHANGED <<list, listLast, combo, comboLast, panic, winVars, drawVars, gridEv>>

GridInsert ==
    \E cell \in GridCells, w \in GridWidgets \ InGrid(grid) :
        LET st == insert([grid |-> grid, rects |-> rects], cell, w)
            dropped == IF cell \in DOMAIN grid.entries THEN {grid.entries[cell]} ELSE {}
        IN  /\ panic = ""
            /\ grid' = st.grid
            /\ rects' = [v \in GridWidgets |->
                            IF v \in dropped THEN WidgetNew(v) ELSE st.rects[v]]
            /\ gridAdds' = <<0>>
            /\ UNCHANGED <<list, listLast, combo, comboLast, panic, winVars, drawVars, gridEv>>

GridArrange ==
    \E resize \in BOOLEAN :
        /\ panic = ""
        /\ rects' = arrange(grid, rects, resize)
        /\ gridAdds' = <<0>>
        /\ UNCHANGED <<grid, list, listLast, combo, comboLast, panic, winVars, drawVars, gridEv>>

GridNext ==
    \/ GridColumns
    \/ GridSpacing
    \/ GridPosition
    \/ GridAdd
    \/ GridInsert
    \/ GridArrange

(* C11: for any cell mapping, spacing and origin of the Grid, and for      *)
(* either value of the resize flag, a second arrange with the mapping      *)
(* unchanged leaves every widget rectangle as the first left it; and       *)
(* filling a Grid with the same (cell, widget) pairs through insert ends   *)
(* with the same rectangles whatever the order of the inserts.             *)
Orders(S) ==
    {f \in [1..Cardinality(S) -> S] : \A i, j \in 1..Cardinality(S) : f[i] = f[j] => i = j}

RECURSIVE Fill(_, _, _, _)
Fill(st, entries, order, i) ==
    IF i > Len(order) THEN st
    ELSE Fill(insert(st, order[i], entries[order[i]]), entries, order, i + 1)

Filled(order) ==
    Fill([grid |-> [grid EXCEPT !.entries = << >>],
          rects |-> [w \in GridWidgets |-> WidgetNew(w)]],
         grid.entries, order, 1)

C11_ArrangeIdempotent ==
    /\ \A resize \in BOOLEAN :
          LET once == arrange(grid, rects, resize)
          IN  arrange(grid, once, resize) = once
    /\ \A o \in Orders(DOMAIN grid.entries) :
          Filled(o) = Filled(SortedCells(DOMAIN grid.entries))

C11_Witness ==
    /\ arrange(grid, rects, TRUE) = rects
    /\ Cardinality(DOMAIN grid.entries) = 3
    /\ grid.space_x = 3
    /\ grid.rect.x = 7
    /\ \E w \in InGrid(grid) : rects[w].width # WidgetSizes[w][1]
    /\ \E o \in Orders(DOMAIN grid.entries) : o # SortedCells(DOMAIN grid.entries)

(* C12: with columns = 2, adding widgets of sizes 10x10, 20x5 and 5x30 in  *)
(* that order puts them into the cells (0,0), (1,0) and (0,1); arrange     *)
(* computes the column widths [10, 20] and the row heights [10, 30]; the   *)
(* second widget's x is the Grid's x + 10 + spacing_x and the third      *)
(* widget's y is the Grid's y + 10 + spacing_y.                          *)
Scenario3Adds == gridAdds = <<1, 2, 3>> /\ grid.columns = 2

C12_ThreeAdds ==
    Scenario3Adds =>
        /\ grid.entries = (<<0, 0>> :> 1) @@ (<<1, 0>> :> 2) @@ (<<0, 1>> :> 3)
        /\ [i \in 1..2 |-> grid_cols(grid, rects)[i].width] = <<10, 20>>
        /\ Len(grid_cols(grid, rects)) = 2
        /\ [i \in 1..2 |-> grid_rows(grid, rects)[i].height] = <<10, 30>>
        /\ Len(grid_rows(grid, rects)) = 2
        /\ rects[2].x = grid.rect.x + 10 + grid.space_x
        /\ rects[3].y = grid.rect.y + 10 + grid.space_y
        /\ rects[1].x = grid.rect.x /\ rects[1].y = grid.rect.y
        /\ rects[2].y = grid.rect.y /\ rects[3].x = grid.rect.x

C12_Witness ==
    /\ Scenario3Adds
    /\ grid.space_x = 3 /\ grid.space_y = 2
    /\ grid.rect.x = 7 /\ grid.rect.y = 5
    /\ rects[2].x = 20
    /\ rects[3].y = 17

----------------------------------------------------------------------------
(* Window (src/src/window.rs)                                              *)

(* The top-level widgets are seen through what the Window reads of them:   *)
(* the result of event, the redraw request, name() and the visibility      *)
(* flag.  A "ComboBox" opens and closes its popup as its own event         *)
(* handler decides; a "Grid" returns what its children make of the event.  *)
MaxWidgets == 2          \* widgets added to one Window
MaxEvents == 3           \* typed events one run queues, Event::Init included
WidgetKinds == {"ComboBox", "Grid"}

(* The batches of platform events one pull can return.                     *)
PlatformBatches ==
    {<< >>, <<"Mouse">>, <<"Resize">>, <<"Quit">>,
     <<"Mouse", "Mouse">>, <<"Resize", "Mouse">>,
     <<"Mouse", "Quit">>, <<"Quit", "Mouse">>}

TopWidget(wid, kind) ==
    [wid |-> wid, kind |-> kind, visible |-> TRUE, activated |-> FALSE]

WindowNew ==
    [widgets |-> << >>, widget_focus |-> 0, running |-> TRUE,
     events |-> <<[id |-> 0, type |-> "Init"]>>, redraw |-> TRUE]

NoCur == [event |-> -1, i |-> -1]

WinDid(op, id, ret, is_focused, req) ==
    [op |-> op, id |-> id, ret |-> ret, is_focused |-> is_focused, req |-> req]

WinStep(op) == WinDid(op, -1, FALSE, FALSE, FALSE)

HistNew ==
    [delivered |-> << >>, popped |-> << >>, draws |-> 0,
     closed |-> "no", pending |-> << >>]

(* Window::close                                                           *)
close(w) == [w EXCEPT !.running = FALSE]

(* Window::add: the widget sequence afterwards and the id returned.        *)
win_add(w, widget) ==
    [window |-> [w EXCEPT !.widgets = Append(@, widget)], id |-> Len(w.widgets)]

set_visible_removes(w, id, flag) ==
    IF id < Len(w.widgets)
    THEN [w EXCEPT !.widgets = SubSeq(@, 1, id) \o SubSeq(@, id + 2, Len(@))]
    ELSE w

(* Window::hide (flag = FALSE) and Window::unhide (flag = TRUE)            *)
set_visible(w, id, flag) ==
    IF id < Len(w.widgets)
    THEN [w EXCEPT !.widgets[id + 1].visible = flag]
    ELSE w

(* Widget::name; ComboBox::name is "ComboBoxActivated" while its popup is  *)
(* open.                                                                   *)
name(widget) ==
    IF widget.kind = "ComboBox" /\ widget.activated
    THEN "ComboBoxActivated"
    ELSE widget.kind

ActivatedNames == {"MenuActivated", "ComboBoxActivated"}

never_stops(widget) == FALSE

(* if widget.name() == "MenuActivated" || widget.name() == "ComboBoxActivated" {break;} *)
stops_pass(widget) == name(widget) \in ActivatedNames

(* What one call of widget.event(event, focused, &mut redraw) can do: the  *)
(* widget afterwards, the value returned and whether redraw was requested. *)
WidgetEvent(widget, focused) ==
    IF widget.kind = "ComboBox"
    THEN IF widget.visible
         THEN UNION {{[widget |-> [widget EXCEPT !.activated = a],
                       ret |-> focused, req |-> r] :
                        r \in {a # widget.activated, TRUE}} : a \in BOOLEAN}
         ELSE {[widget |-> widget, ret |-> focused, req |-> FALSE]}
    ELSE UNION {{[widget |-> widget, ret |-> t, req |-> r] :
                    r \in {t /\ ~focused, TRUE}} : t \in {focused, TRUE}}

(* self.widget_focus.get() == i                                            *)
is_focused(w, i) == w.widget_focus = i

deliver_always_dirty(w, i, out) ==
    [w EXCEPT !.widgets[i + 1] = out.widget,
              !.widget_focus = IF out.ret THEN i ELSE @,
              !.redraw = @ \/ out.req \/ out.ret]

(* delivery that hands the focus to the position after the widget *)
deliver_focus_next(w, i, out) ==
    [w EXCEPT !.widgets[i + 1] = out.widget,
              !.widget_focus = IF out.ret THEN i + 1 ELSE @,
              !.redraw = @ \/ out.req \/ (out.ret /\ w.widget_focus # i)]

(* The Window after widget i handled the event with the outcome out.       *)
deliver(w, i, out) ==
    [w EXCEPT !.widgets[i + 1] = out.widget,
              !.widget_focus = IF out.ret THEN i ELSE @,
              !.redraw = @ \/ out.req \/ (out.ret /\ w.widget_focus # i)]

pop_back(q) == [event |-> q[Len(q)], rest |-> SubSeq(q, 1, Len(q) - 1)]

(* VecDeque::pop_front                                                     *)
pop_front(q) == [event |-> Head(q), rest |-> Tail(q)]

drain_until_closed(w) == w.events # << >> /\ w.running

(* while let Some(event) = self.events.pop_front()                         *)
drain_continues(w) == w.events # << >>

draw_keeps_flag(w) ==
    [window |-> w, drawn |-> w.redraw]

(* Window::draw_if_needed                                                  *)
draw_if_needed(w) ==
    [window |-> [w EXCEPT !.redraw = FALSE], drawn |-> w.redraw]

(* Window::drain_orbital_events on one batch of platform events; n is the  *)
(* number of typed events queued before.                                   *)
RECURSIVE translate(_, _, _, _)
translate(w, batch, k, n) ==
    IF k > Len(batch) THEN w
    ELSE IF batch[k] = "Quit"
         THEN translate([w EXCEPT !.running = FALSE], batch, k + 1, n)
         ELSE translate([w EXCEPT
                           !.events = Append(@, [id |-> n, type |-> batch[k]]),
                           !.redraw = @ \/ batch[k] = "Resize"],
                        batch, k + 1, n + 1)

Queued == Len(winHist.popped) + Len(win.events)
Typed(batch) == Cardinality({k \in 1..Len(batch) : batch[k] # "Quit"})
Ids(q) == {q[k].id : k \in 1..Len(q)}

nonWinVars == <<list, listLast, combo, comboLast, panic, gridVars, drawVars>>

WinAdd ==
    \E kind \in WidgetKinds :
        LET a == win_add(win, TopWidget(Len(win.widgets), kind))
        IN  /\ panic = ""
            /\ winPc = "setup"
            /\ Len(win.widgets) < MaxWidgets
            /\ win' = a.window
            /\ winLast' = WinDid("add", a.id, FALSE, FALSE, FALSE)
            /\ UNCHANGED <<winPc, winCur, winHist, nonWinVars>>

(* hide and unhide, called by the application before exec or from a        *)
(* callback that runs while an event is dispatched.                        *)
WinHide ==
    \E id \in 0..MaxWidgets :
        /\ panic = ""
        /\ winPc \in {"setup", "dispatch"}
        /\ win' = set_visible(win, id, FALSE)
        /\ winLast' = WinDid("hide", id, FALSE, FALSE, FALSE)
        /\ UNCHANGED <<winPc, winCur, winHist, nonWinVars>>

WinUnhide ==
    \E id \in 0..MaxWidgets :
        /\ panic = ""
        /\ winPc \in {"setup", "dispatch"}
        /\ win' = set_visible(win, id, TRUE)
        /\ winLast' = WinDid("unhide", id, FALSE, FALSE, FALSE)
        /\ UNCHANGED <<winPc, winCur, winHist, nonWinVars>>

WinClose ==
    /\ panic = ""
    /\ winPc \in {"setup", "dispatch"}
    /\ win' = close(win)
    /\ winHist' = IF winHist.closed = "no"
                  THEN [winHist EXCEPT !.closed = winPc, !.pending = win.events]
                  ELSE winHist
    /\ winLast' = WinStep("close")
    /\ UNCHANGED <<winPc, winCur, nonWinVars>>

(* exec is entered; its loop tests running.                                *)
WinExec ==
    /\ panic = ""
    /\ winPc = "setup"
    /\ winPc' = "check"
    /\ winLast' = WinStep("exec")
    /\ UNCHANGED <<win, winCur, winHist, nonWinVars>>

WinCheck ==
    /\ panic = ""
    /\ winPc = "check"
    /\ winPc' = IF win.running THEN "drain" ELSE "returned"
    /\ winHist' = [winHist EXCEPT !.draws = 0]
    /\ winLast' = WinStep("check")
    /\ UNCHANGED <<win, winCur, nonWinVars>>

(* drain_events takes the next event, or finds the queue empty.            *)
WinDrain ==
    /\ panic = ""
    /\ winPc = "drain"
    /\ IF drain_continues(win)
       THEN LET p == pop_front(win.events)
            IN  /\ win' = [win EXCEPT !.events = p.rest]
                /\ winCur' = [event |-> p.event.id, i |-> Len(win.widgets) - 1]
                /\ winHist' = [winHist EXCEPT !.popped = Append(@, p.event.id)]
                /\ winPc' = "dispatch"
       ELSE /\ winPc' = "draw"
            /\ UNCHANGED <<win, winCur, winHist>>
    /\ winLast' = WinStep("drain")
    /\ UNCHANGED nonWinVars

(* One pass of the reverse loop over the widgets: widget i handles the     *)
(* event; the loop ends below index 0 or at an activated widget.           *)
WinDispatch ==
    /\ panic = ""
    /\ winPc = "dispatch"
    /\ IF winCur.i < 0
       THEN /\ winPc' = "drain"
            /\ winCur' = NoCur
            /\ winLast' = WinStep("next")
            /\ UNCHANGED <<win, winHist>>
       ELSE LET i == winCur.i
                focused == is_focused(win, i)
            IN  \E out \in WidgetEvent(win.widgets[i + 1], focused) :
                    LET w == deliver(win, i, out)
                        act == name(w.widgets[i + 1]) \in ActivatedNames
                    IN  /\ win' = w
                        /\ winCur' = [winCur EXCEPT
                               !.i = IF stops_pass(w.widgets[i + 1]) THEN -1 ELSE i - 1]
                        /\ winHist' = [winHist EXCEPT !.delivered =
                               Append(@, [event |-> winCur.event, index |-> i, act |-> act])]
                        /\ winLast' = WinDid("event", i, out.ret, focused, out.req)
                        /\ UNCHANGED winPc
    /\ UNCHANGED nonWinVars

WinDraw ==
    LET d == draw_if_needed(win)
    IN  /\ panic = ""
        /\ winPc = "draw"
        /\ win' = d.window
        /\ winHist' = [winHist EXCEPT !.draws = IF d.drawn THEN @ + 1 ELSE @]
        /\ winPc' = "pull"
        /\ winLast' = WinStep("draw")
        /\ UNCHANGED <<winCur, nonWinVars>>

WinPull ==
    \E batch \in PlatformBatches :
        /\ panic = ""
        /\ winPc = "pull"
        /\ Queued + Typed(batch) <= MaxEvents
        /\ win' = translate(win, batch, 1, Queued)
        /\ winHist' = IF winHist.closed = "no" /\ ~win'.running
                      THEN [winHist EXCEPT !.closed = "quit"]
                      ELSE winHist
        /\ winPc' = "check"
        /\ winLast' = WinStep("pull")
        /\ UNCHANGED <<winCur, nonWinVars>>

WinNext ==
    \/ WinAdd
    \/ WinHide
    \/ WinUnhide
    \/ WinClose
    \/ WinExec
    \/ WinCheck
    \/ WinDrain
    \/ WinDispatch
    \/ WinDraw
    \/ WinPull

(* C13: the Window takes the typed events off its queue in the order they *)
(* were queued, and gives each event to the widgets in strictly           *)
(* decreasing index order; every delivery of an event comes before every  *)
(* delivery of an event queued later.                                     *)
Popped == {winHist.popped[k] : k \in 1..Len(winHist.popped)}

C13_FifoReverseOrder ==
    /\ winHist.popped = [k \in 1..Len(winHist.popped) |-> k - 1]
    /\ \A a, b \in 1..Len(winHist.delivered) :
          a < b =>
            \/ winHist.delivered[a].event < winHist.delivered[b].event
            \/ /\ winHist.delivered[a].event = winHist.delivered[b].event
               /\ winHist.delivered[a].index > winHist.delivered[b].index
    /\ \A a \in 1..Len(winHist.delivered) : winHist.delivered[a].event \in Popped

C13_Witness ==
    /\ Len(win.widgets) = 2
    /\ [k \in 1..Len(winHist.delivered) |->
          <<winHist.delivered[k].event, winHist.delivered[k].index>>]
         = <<<<0, 1>>, <<0, 0>>, <<1, 1>>, <<1, 0>>, <<2, 1>>, <<2, 0>>>>

(* C14: once a widget whose name() is "ComboBoxActivated" or              *)
(* "MenuActivated" after handling an event has been given that event, no  *)
(* widget with a lower index receives the event; the widgets with higher  *)
(* indices have received it before.                                       *)
C14_ActivatedStopsPass ==
    \A a \in 1..Len(winHist.delivered) :
        winHist.delivered[a].act =>
            /\ \A b \in 1..Len(winHist.delivered) :
                  winHist.delivered[b].event = winHist.delivered[a].event
                      => winHist.delivered[b].index >= winHist.delivered[a].index
            /\ \A j \in (winHist.delivered[a].index + 1)..(Len(win.widgets) - 1) :
                  \E b \in 1..(a - 1) :
                      /\ winHist.delivered[b].event = winHist.delivered[a].event
                      /\ winHist.delivered[b].index = j

C14_Witness ==
    /\ Len(win.widgets) = 2
    /\ \E a \in 1..Len(winHist.delivered) :
          /\ winHist.delivered[a].act
          /\ winHist.delivered[a].index = 1
          /\ winHist.delivered[a].event = 0
    /\ \E a \in 1..Len(winHist.delivered) :
          /\ winHist.delivered[a].act
          /\ winHist.delivered[a].index = 0
          /\ winHist.delivered[a].event = 1
    /\ Len(winHist.popped) = 3

(* C15: widget i is passed is_focused = (focus index = i) as the focus    *)
(* index stands when it is called; when its handler returns true the      *)
(* focus index becomes i and the Window sets the dirty flag exactly when  *)
(* the focus index changed; when it returns false the focus index stays.  *)
C15_FocusFollowsHandler ==
    [][Len(winHist'.delivered) = Len(winHist.delivered) + 1 =>
          /\ winLast'.is_focused = (win.widget_focus = winLast'.id)
          /\ winLast'.ret => win'.widget_focus = winLast'.id
          /\ ~winLast'.ret => win'.widget_focus = win.widget_focus
          /\ win'.redraw = (\/ win.redraw
                            \/ winLast'.req
                            \/ win'.widget_focus # win.widget_focus)]_vars

C15_Witness ==
    /\ winLast.op = "event"
    /\ winLast.ret
    /\ ~winLast.is_focused
    /\ winLast.id = 1
    /\ win.widget_focus = 1
    /\ win.redraw

(* C16: exec paints at most once for each drain of the queue: after the   *)
(* queue is drained it draws exactly when the dirty flag is set and the   *)
(* flag is false afterwards; nothing is drawn while events are            *)
(* dispatched.                                                            *)
C16_OneDrawPerDrain ==
    /\ [](winHist.draws <= 1)
    /\ [][winHist'.draws > winHist.draws =>
            /\ winPc = "draw"
            /\ win.events = << >>
            /\ winCur = NoCur
            /\ win.redraw]_vars
    /\ [][winPc = "draw" /\ winPc' # "draw" =>
            /\ win.redraw <=> winHist'.draws = winHist.draws + 1
            /\ ~win'.redraw]_vars
    /\ [](winPc = "pull" => ~win.redraw)

C16_Witness ==
    /\ winLast.op = "draw"
    /\ winHist.draws = 1
    /\ Len(winHist.popped) = 3
    /\ Len(winHist.delivered) = 6

(* C17: when close() is called from a callback while events are           *)
(* dispatched, the events in the queue at that moment are all dispatched  *)
(* before exec tests running again; running stays false; and exec         *)
(* returns at its next test of running.                                   *)
C17_CloseDuringDispatch ==
    /\ [](winHist.closed = "dispatch" /\ winPc \notin {"drain", "dispatch"} =>
            /\ Ids(winHist.pending) \subseteq Popped
            /\ winCur = NoCur)
    /\ [][~win.running => ~win'.running]_vars
    /\ [][winPc = "check" /\ ~win.running /\ winPc' # winPc => winPc' = "returned"]_vars
    /\ [][winPc = "returned" => winPc' = "returned"]_vars

C17_Witness ==
    /\ winPc = "returned"
    /\ winHist.closed = "dispatch"
    /\ Len(winHist.pending) = 1
    /\ Len(win.widgets) = 2

(* C18: add returns the index the widget is stored at, and every index    *)
(* keeps naming the same widget: hide and unhide change only the          *)
(* visibility flag of the widget addressed and neither the length nor the *)
(* order of the widgets; with an id out of range they change nothing.     *)
C18_StableIndices ==
    [][/\ Len(win'.widgets) >= Len(win.widgets)
       /\ \A k \in 1..Len(win.widgets) :
             /\ win'.widgets[k].wid = win.widgets[k].wid
             /\ win'.widgets[k].kind = win.widgets[k].kind
       /\ winLast'.op = "add" =>
             /\ winLast'.id = Len(win.widgets)
             /\ Len(win'.widgets) = Len(win.widgets) + 1
             /\ win'.widgets[winLast'.id + 1].wid = Len(win.widgets)
       /\ winLast'.op \in {"hide", "unhide"} =>
             win' = IF winLast'.id < Len(win.widgets)
                    THEN [win EXCEPT !.widgets[winLast'.id + 1].visible =
                                         (winLast'.op = "unhide")]
                    ELSE win]_vars

C18_Witness ==
    /\ winLast.op = "hide"
    /\ winLast.id = 0
    /\ winPc = "dispatch"
    /\ Len(win.widgets) = 2
    /\ ~win.widgets[1].visible
    /\ win.widgets[2].visible

----------------------------------------------------------------------------
(* Drawing (Widget::draw of List, Grid, ComboBox and ProgressBar)          *)

BarRects == {Rect(5, 5, 100, 10)}
BarValues == {0, 50}
Drawn == {"List", "Grid", "ComboBox", "ProgressBar"}

ProgressBarNew ==
    [rect |-> RectDefault, value |-> 0, minimum |-> 0, maximum |-> 100,
     pressed |-> FALSE, visible |-> TRUE]

(* One call on the renderer: what is painted and the rectangle it covers.  *)
Paint(what, rect) == [what |-> what, rect |-> rect]

(* List::draw: the entries are painted into an image of the size of the    *)
(* List, and the image is put onto the renderer.                           *)
ListDraw(l) == <<Paint("image", l.rect)>>

(* Grid::draw: every entry draws itself, in key order.                     *)
RECURSIVE draw_entries(_, _, _, _)
draw_entries(g, rs, cells, i) ==
    IF i > Len(cells) THEN << >>
    ELSE <<Paint("entry", rs[g.entries[cells[i]]])>> \o draw_entries(g, rs, cells, i + 1)

GridDraw(g, rs) == draw_entries(g, rs, SortedCells(DOMAIN g.entries), 1)

(* ComboBox::draw, with offset = (4, 4) as ComboBox::new sets it.          *)
ComboDraw(c) ==
    IF c.visible
    THEN LET rect == c.rect
             flyout_rect == Rect(rect.x, rect.y + rect.height - 2,
                                 rect.width, c.flyout_height + 2)
             shown == SelectSeq(c.entries, LAMBDA e :
                         /\ e.rect.y >= rect.y
                         /\ e.rect.y + rect.height <= flyout_rect.y + flyout_rect.height)
             toggle_size == rect.height - 2 * 4
             toggle_rect == Rect(rect.x + rect.width - toggle_size - 4, rect.y + 4,
                                 toggle_size, toggle_size)
             point == [x |-> rect.x + 4 - 8, y |-> rect.y + (rect.height \div 2) - 8]
         IN  (IF c.activated
              THEN <<Paint("flyout", flyout_rect)>> \o
                   [k \in 1..Len(shown) |-> Paint("entry", shown[k].rect)]
              ELSE << >>)
             \o <<Paint("box", rect), Paint("toggle", toggle_rect)>>
             \o (IF c.text # "" /\ point.x + 8 <= rect.width - toggle_rect.width - 2 * 4
                 THEN <<Paint("char", Rect(point.x + rect.x, point.y, 8, 16))>>
                 ELSE << >>)
    ELSE << >>

(* ProgressBar::draw, with the border radius 1 and border width 0 it       *)
(* falls back to.                                                          *)
ProgressBarDraw(p) ==
    IF p.visible
    THEN LET width == (p.rect.width * Max(0, Min(p.maximum, p.value - p.minimum)))
                          \div Max(1, p.maximum - p.minimum)
             progress_rect == [p.rect EXCEPT !.width = width]
         IN  <<Paint("box", p.rect)>> \o
             (IF width >= 0 + 1 * 2 THEN <<Paint("progress", progress_rect)>> ELSE << >>)
    ELSE << >>

Canvas(widget, visible, painted) ==
    [widget |-> widget, visible |-> visible, painted |-> painted]

nonDrawVars == <<listLast, comboLast, panic, rects, gridAdds, gridEv, winVars>>

ListVisible ==
    \E flag \in BOOLEAN :
        /\ panic = ""
        /\ list' = [list EXCEPT !.visible = flag]
        /\ UNCHANGED <<combo, grid, bar, canvas, nonDrawVars>>

GridVisible ==
    \E flag \in BOOLEAN :
        /\ panic = ""
        /\ grid' = [grid EXCEPT !.visible = flag]
        /\ UNCHANGED <<list, combo, bar, canvas, nonDrawVars>>

BarVisible ==
    \E flag \in BOOLEAN :
        /\ panic = ""
        /\ bar' = [bar EXCEPT !.visible = flag]
        /\ UNCHANGED <<list, combo, grid, canvas, nonDrawVars>>

BarPlace ==
    \E r \in BarRects :
        /\ panic = ""
        /\ bar' = [bar EXCEPT !.rect = r]
        /\ UNCHANGED <<list, combo, grid, canvas, nonDrawVars>>

BarValue ==
    \E v \in BarValues :
        /\ panic = ""
        /\ bar' = [bar EXCEPT !.value = v]
        /\ UNCHANGED <<list, combo, grid, canvas, nonDrawVars>>

(* One call of draw on one of the widgets, as Window::draw makes it.       *)
Draw ==
    \E widget \in Drawn :
        /\ panic = ""
        /\ canvas' = CASE widget = "List" -> Canvas(widget, list.visible, ListDraw(list))
                       [] widget = "Grid" -> Canvas(widget, grid.visible, GridDraw(grid, rects))
                       [] widget = "ComboBox" -> Canvas(widget, combo.visible, ComboDraw(combo))
                       [] widget = "ProgressBar" -> Canvas(widget, bar.visible, ProgressBarDraw(bar))
        /\ UNCHANGED <<list, combo, grid, bar, nonDrawVars>>

DrawNext ==
    \/ ListPlace
    \/ ListVisible
    \/ GridAdd
    \/ GridVisible
    \/ ComboVisible
    \/ BarPlace
    \/ BarValue
    \/ BarVisible
    \/ Draw

(* C19: while the visibility flag of a List, Grid, ComboBox or             *)
(* ProgressBar is false, a call of its draw paints nothing onto the        *)
(* renderer.                                                               *)
Painted ==
    {k \in 1..Len(canvas.painted) :
        canvas.painted[k].rect.width > 0 /\ canvas.painted[k].rect.height > 0}

C19_HiddenPaintsNothing == ~canvas.visible => Painted = {}

(* C20: when an entry of the open popup reports a click (it was pressed    *)
(* and the button is released over it), then after that Mouse event the   *)
(* selected index is the entry's index, the text is the entry's text and  *)
(* the popup is closed.                                                    *)
Clicked(c, event) ==
    {k \in 1..Len(c.entries) :
        /\ contains(c.entries[k].rect, event.point)
        /\ ~event.left_button
        /\ c.entries[k].pressed}

C20_EntryClickSelects ==
    [][/\ comboLast'.op = "event"
       /\ comboLast'.event.type = "Mouse"
       /\ combo.visible
       /\ combo.activated
       => \A k \in Clicked(combo, comboLast'.event) :
             /\ combo'.selected = Some(combo.entries[k].index)
             /\ combo'.text = combo.entries[k].text
             /\ ~combo'.activated]_vars

(* C21: push appends the new entry at the end with index equal to the      *)
(* previous entry count and leaves the entries before it alone, adds the   *)
(* ComboBox's row height to flyout_height, and selects index 0 with the    *)
(* pushed text exactly when the pushed entry is the only one; otherwise    *)
(* the selection and the text are unchanged.                               *)
C21_Push ==
    [][comboLast'.op = "push"
       => LET n == Len(combo.entries)
          IN  /\ Len(combo'.entries) = n + 1
              /\ combo'.entries[n + 1].index = n
              /\ combo'.entries[n + 1].text = comboLast'.text
              /\ combo'.flyout_height = combo.flyout_height + combo.rect.height
              /\ IF n = 0
                 THEN /\ combo'.selected = Some(0)
                      /\ combo'.text = comboLast'.text
                      /\ combo'.entries[1].active
                 ELSE /\ SubSeq(combo'.entries, 1, n) = combo.entries
                      /\ ~combo'.entries[n + 1].active
                      /\ combo'.selected = combo.selected
                      /\ combo'.text = combo.text]_vars

C21_Witness ==
    /\ comboLast.op = "push"
    /\ Len(combo.entries) = 3
    /\ combo.entries[3].index = 2
    /\ combo.selected = Some(1)
    /\ combo.text = combo.entries[2].text
    /\ combo.flyout_height = 3 * combo.rect.height

(* C22: a left-button press inside the ComboBox's rectangle followed by    *)
(* the release inside it toggles activated, however many Mouse events are  *)
(* delivered inside the rectangle while the button is held; a release      *)
(* inside a closed ComboBox that was never pressed leaves it closed; and a *)
(* button-up Mouse event outside the rectangle while pressed is false      *)
(* closes the popup.                                                       *)
MaxMotions == 2

InsideBox == [x |-> 10, y |-> 10]

OutsideBox == [x |-> 10, y |-> 500]

RECURSIVE Held(_, _, _, _)
Held(c, point, focused, n) ==
    IF n = 0 THEN c
    ELSE Held(ComboEvent(c, Mouse(point, TRUE), focused, FALSE).widget,
              point, focused, n - 1)

PressRelease(c, point, focused, motions) ==
    ComboEvent(Held(c, point, focused, motions + 1),
               Mouse(point, FALSE), focused, FALSE).widget

ButtonUp ==
    \/ comboLast.op = "new"
    \/ /\ comboLast.op = "event"
       /\ comboLast.event.type = "Mouse"
       /\ ~comboLast.event.left_button

C22_PressToggles ==
    (panic = "" /\ combo.visible /\ ButtonUp)
    => \A focused \in BOOLEAN :
          /\ \A motions \in 0..MaxMotions :
                PressRelease(combo, InsideBox, focused, motions).activated
                    = ~combo.activated
          /\ (~combo.activated /\ ~combo.pressed)
                => ~ComboEvent(combo, Mouse(InsideBox, FALSE), focused, FALSE).widget.activated
          /\ ~combo.pressed
                => ~ComboEvent(combo, Mouse(OutsideBox, FALSE), focused, FALSE).widget.activated

(* C23: UpArrow or DownArrow sent to a ComboBox with zero entries, open or *)
(* closed, does not panic, and afterwards the selection is None: it is not *)
(* the index of an entry that does not exist.                              *)
C23_EmptyComboKeys ==
    ( /\ comboLast.op = "event"
      /\ comboLast.event.type \in {"UpArrow", "DownArrow"}
      /\ Len(combo.entries) = 0 )
    => /\ panic = ""
       /\ combo.selected = None

(* C24: while the popup is open, a Mouse event for which no entry reports  *)
(* a click (a release inside the rectangle of an entry that was pressed)   *)
(* leaves the selected index unchanged, and leaves the popup open unless   *)
(* the ComboBox's own rule closes it (button up while pressed is false);   *)
(* whatever value of focused the ComboBox is passed.                       *)
C24_OnlyClicksSelect ==
    [][( /\ comboLast'.op = "event"
         /\ comboLast'.event.type = "Mouse"
         /\ combo.visible
         /\ combo.activated
         /\ Clicked(combo, comboLast'.event) = {} )
       => /\ combo'.selected = combo.selected
          /\ (comboLast'.event.left_button \/ combo.pressed)
                => combo'.activated]_vars

(* C25: UpArrow sent to a visible ComboBox with selected index i makes the *)
(* selection i - 1 when i > 0, with the popup open or closed, leaves it at *)
(* 0 when i = 0, and never changes activated.                              *)
C25_UpArrow ==
    [][( /\ comboLast'.op = "event"
         /\ comboLast'.event.type = "UpArrow"
         /\ combo.visible )
       => /\ combo'.activated = combo.activated
          /\ combo.selected # None
                => combo'.selected = Some(Max(combo.selected[1] - 1, 0))]_vars

C25_Witness ==
    /\ comboLast.op = "event"
    /\ comboLast.event.type = "UpArrow"
    /\ combo.visible
    /\ ~combo.activated
    /\ Len(combo.entries) = 3
    /\ combo.selected = Some(1)
    /\ ActiveEntries(combo) = {1}
    /\ combo.text = combo.entries[2].text

(* C26: for a List with len >= 1 entries, UpArrow takes the selection      *)
(* Some(i) to Some(max(i - 1, 0)) and DownArrow takes it to                *)
(* Some(min(i + 1, len - 1)); from no selection either key selects entry   *)
(* 0; Home selects entry 0 and End selects entry len - 1.                  *)
C26_ListKeys ==
    [][( /\ listLast'.op = "event"
         /\ Len(list.entries) >= 1 )
       => LET key == listLast'.event.type
              len == Len(list.entries)
          IN  /\ key = "UpArrow"
                    => list'.selected =
                          IF list.selected = None THEN Some(0)
                          ELSE Some(Max(list.selected[1] - 1, 0))
              /\ key = "DownArrow"
                    => list'.selected =
                          IF list.selected = None THEN Some(0)
                          ELSE Some(Min(list.selected[1] + 1, len - 1))
              /\ key = "Home" => list'.selected = Some(0)
              /\ key = "End" => list'.selected = Some(len - 1)]_vars

C26_Witness ==
    /\ listLast.op = "event"
    /\ listLast.event.type = "End"
    /\ Len(list.entries) = 3
    /\ list.selected = Some(2)
    /\ list.entries[3].highlighted
    /\ ~list.entries[1].highlighted
    /\ panic = ""

(* C27: after a step in which the List selects entry i whose height does   *)
(* not exceed the viewport height, the entry's whole row lies inside the   *)
(* viewport, and the offset moved by the least amount: it is unchanged if  *)
(* the row was fully visible, the row's top if the top was above the       *)
(* viewport, and the row's bottom minus the viewport height if the bottom  *)
(* was below it.                                                           *)
ContentTop(l, i) == SumHeights(SubSeq(l.entries, 1, i))

(* the entry that the handler selects (calls change_selection with) *)
Selects(l, event) ==
    LET out == ListEvent(l, event, FALSE, FALSE).widget
    IN  IF Len(l.entries) >= 1 /\ event.type = "Home" THEN Some(0)
        ELSE IF Len(l.entries) >= 1 /\ event.type = "End"
             THEN Some(Len(l.entries) - 1)
             ELSE IF out.selected # l.selected THEN out.selected ELSE None

C27_AutoScroll ==
    [][( /\ listLast'.op = "event"
         /\ Selects(list, listLast'.event) # None
         /\ list'.selected = Selects(list, listLast'.event)
         /\ list.entries[list'.selected[1] + 1].height <= list.rect.height )
       => LET i == list'.selected[1]
              top == ContentTop(list, i)
              height == list.entries[i + 1].height
              viewport == list.rect.height
          IN  /\ list'.v_scroll <= top
              /\ top + height <= list'.v_scroll + viewport
              /\ list'.v_scroll =
                    IF top < list.v_scroll THEN top
                    ELSE IF top + height > list.v_scroll + viewport
                         THEN top + height - viewport
                         ELSE list.v_scroll]_vars

(* C28: pointer input invokes an entry's click callback only when the left *)
(* button went down and up again while the pointer was over that entry: a  *)
(* press that began over entry A, or outside every entry, and is released  *)
(* over another entry B, after the pointer moved there with the button     *)
(* held, does not invoke B's callback.                                     *)
ListButtonUp ==
    \/ listLast.op = "new"
    \/ /\ listLast.op = "event"
       /\ listLast.event.type = "Mouse"
       /\ ~listLast.event.left_button

(* the entry whose callback the release invokes after a press at `from`    *)
(* and a move to `to` with the button held                                 *)
DragClick(l, from, to) ==
    LET l1 == ListEvent(l, Mouse(from, TRUE), FALSE, FALSE).widget
        l2 == ListEvent(l1, Mouse(to, TRUE), FALSE, FALSE).widget
    IN  ListEvent(l2, Mouse(to, FALSE), FALSE, FALSE).click

C28_ClickNeedsPressOnEntry ==
    (panic = "" /\ ListButtonUp)
    => \A from \in ListPoints, to \in ListPoints :
          DragClick(list, from, to) # None
             => DragClick(list, from, to) = get_entry_index(list, from)

(* C29: a Mouse event that invokes no click callback (it is not the        *)
(* release of a press inside the List) leaves the selected index and every *)
(* highlighted flag unchanged, and a Mouse event whose point resolves to   *)
(* no entry never changes the selection.                                   *)
Highlighted(l) == {k \in 0..(Len(l.entries) - 1) : l.entries[k + 1].highlighted}

C29_OnlyClicksSelect ==
    [][( /\ listLast'.op = "event"
         /\ listLast'.event.type = "Mouse" )
       => LET event == listLast'.event
              click == ListEvent(list, event, FALSE, FALSE).click
          IN  /\ click = None
                    => /\ list'.selected = list.selected
                       /\ Highlighted(list') = Highlighted(list)
              /\ get_entry_index(list, event.point) = None
                    => list'.selected = list.selected]_vars

----------------------------------------------------------------------------
(* Grid::event, Grid::remove and Grid::clear (src/src/widgets/grid.rs)     *)

map_remove(entries, cell) ==
    [c \in (DOMAIN entries) \ {cell} |-> entries[c]]

remove(g, cell) == [g EXCEPT !.entries = map_remove(@, cell)]

clear(g) == [g EXCEPT !.entries = << >>]

(* The loop of Grid::event over the cells in key order.  rets[cell] is the *)
(* value the cell's widget returns from its own event handler; acc holds   *)
(* the Grid, the local `focused`, *redraw as far as the Grid sets it, and  *)
(* the is_focused argument every widget was called with.                   *)
RECURSIVE event_loop(_, _, _, _)
event_loop(acc, cells, i, rets) ==
    IF i > Len(cells) THEN acc
    ELSE LET cell == cells[i]
             cell_focused == acc.grid.focused = Some(cell)
             passed == map_insert(acc.passed, cell, acc.focused /\ cell_focused)
         IN  IF rets[cell]
             THEN LET claim == check_set(acc.grid.focused, Some(cell)) \/ ~acc.focused
                  IN  event_loop([grid |-> [acc.grid EXCEPT !.focused = Some(cell)],
                                  focused |-> acc.focused \/ claim,
                                  redraw |-> acc.redraw \/ claim,
                                  passed |-> passed],
                                 cells, i + 1, rets)
             ELSE event_loop([acc EXCEPT
                                 !.grid.focused = IF cell_focused THEN None ELSE @,
                                 !.passed = passed],
                             cells, i + 1, rets)

grid_event(g, rets, focused) ==
    event_loop([grid |-> g, focused |-> focused, redraw |-> FALSE, passed |-> << >>],
               SortedCells(DOMAIN g.entries), 1, rets)

GridEvNew ==
    [tick |-> FALSE, focused |-> FALSE, rets |-> << >>, passed |-> << >>, ret |-> FALSE]

(* A widget taken out of the Grid is dropped by it: as in GridInsert, a    *)
(* fresh widget of the same size stands for it from then on.               *)
GridRemove ==
    \E cell \in GridCells :
        LET dropped == IF cell \in DOMAIN grid.entries THEN {grid.entries[cell]} ELSE {}
        IN  /\ panic = ""
            /\ grid' = remove(grid, cell)
            /\ rects' = [v \in GridWidgets |->
                            IF v \in dropped THEN WidgetNew(v) ELSE rects[v]]
            /\ gridAdds' = <<0>>
            /\ UNCHANGED <<list, listLast, combo, comboLast, panic, winVars, drawVars, gridEv>>

GridClear ==
    /\ panic = ""
    /\ grid' = clear(grid)
    /\ rects' = [v \in GridWidgets |-> WidgetNew(v)]
    /\ gridAdds' = <<0>>
    /\ UNCHANGED <<list, listLast, combo, comboLast, panic, winVars, drawVars, gridEv>>

GridEvent ==
    \E focused \in BOOLEAN, rets \in [DOMAIN grid.entries -> BOOLEAN] :
        LET out == grid_event(grid, rets, focused)
        IN  /\ panic = ""
            /\ grid' = out.grid
            /\ gridEv' = [tick |-> ~gridEv.tick, focused |-> focused, rets |-> rets,
                          passed |-> out.passed, ret |-> out.focused]
            /\ UNCHANGED <<rects, gridAdds, list, listLast, combo, comboLast, panic,
                           winVars, drawVars>>

GridEventNext ==
    \/ GridInsert
    \/ GridRemove
    \/ GridClear
    \/ GridEvent

(* C30: Grid::event calls the widget of every occupied cell, and the       *)
(* is_focused it passes is the window-level focus AND the cell holding the *)
(* grid-level focus at the time of the call; afterwards the grid-level     *)
(* focus is the last cell, in iteration order, whose widget returned true, *)
(* or None when no widget returned true; and the Grid returns true         *)
(* whenever at least one widget returned true.                             *)
Claimed(rets) == {c \in DOMAIN rets : rets[c]}

LastCell(S) == CHOOSE c \in S : \A d \in S : c = d \/ CellLess(d, c)

C30_GridEvent ==
    [][gridEv'.tick # gridEv.tick
       => LET cells == DOMAIN grid.entries
              rets == gridEv'.rets
          IN  /\ DOMAIN gridEv'.passed = cells
              /\ \A c \in cells :
                    gridEv'.passed[c] =
                       ( /\ gridEv'.focused
                         /\ grid.focused = Some(c)
                         /\ \A d \in cells : CellLess(d, c) => ~rets[d] )
              /\ grid'.focused = IF Claimed(rets) = {} THEN None
                                 ELSE Some(LastCell(Claimed(rets)))
              /\ Claimed(rets) # {} => gridEv'.ret]_vars

(* C31: whenever the Window holds at least one widget, the focus index is  *)
(* a position of the widget sequence: widget_focus < number of widgets, in *)
(* every state reached by add, hide, unhide and event dispatch.            *)
C31_FocusIndexValid ==
    Len(win.widgets) >= 1 => win.widget_focus < Len(win.widgets)

C31_Witness ==
    /\ Len(win.widgets) = 2
    /\ win.widget_focus = 1
    /\ winLast.op = "event"
    /\ winLast.id = 0
    /\ ~winLast.ret
    /\ \E k \in 1..2 : ~win.widgets[k].visible

(* C32: in every state of a List the selection is None with no entry       *)
(* highlighted, or Some(i) with i below the number of entries and entry i  *)
(* the one and only highlighted entry.                                     *)
C32_SelectionHighlight ==
    IF list.selected = None
    THEN Highlighted(list) = {}
    ELSE /\ list.selected[1] < Len(list.entries)
         /\ Highlighted(list) = {list.selected[1]}

C32_Witness ==
    /\ listLast.op = "event"
    /\ listLast.event.type = "UpArrow"
    /\ Len(list.entries) = 3
    /\ list.selected = Some(1)
    /\ Highlighted(list) = {1}

(* C33: in every state of a ComboBox whose rectangle height is not         *)
(* changed, flyout_height is the number of entries held times the row      *)
(* height, after any sequence of push and pop.                             *)
C33_FlyoutHeight ==
    combo.flyout_height = Len(combo.entries) * combo.rect.height

(* C34: after a Mouse event in which a popup entry was clicked (the button *)
(* released where the pointer already was) and the ComboBox closed, the    *)
(* next left-button press inside the ComboBox's rectangle opens the popup, *)
(* and the popup is still open after the release that follows inside the  *)
(* rectangle.                                                              *)
C34_ReopenAfterSelection ==
    [][( /\ comboLast'.op = "event"
         /\ comboLast'.event.type = "Mouse"
         /\ comboLast.op = "event"
         /\ comboLast.event.type = "Mouse"
         /\ comboLast.event.point = comboLast'.event.point
         /\ combo.visible
         /\ combo.activated
         /\ Clicked(combo, comboLast'.event) # {}
         /\ ~combo'.activated )
       => \A focused \in BOOLEAN :
             /\ Held(combo', InsideBox, focused, 1).activated
             /\ PressRelease(combo', InsideBox, focused, 0).activated]_vars

(* C35: a hidden widget never stops an event from being delivered to the   *)
(* other widgets: when the widget at index i is hidden while it is given   *)
(* an event, the pass goes on to index i - 1, also when the widget is a    *)
(* ComboBox whose popup was open when it was hidden.                       *)
C35_HiddenNeverStops ==
    [][( /\ winLast'.op = "event"
         /\ ~win.widgets[winLast'.id + 1].visible )
       => winCur'.i = winLast'.id - 1]_vars

(* C36: in every state of a Grid, after any sequence of add, insert,       *)
(* remove, clear and event calls, the grid-level focused cell is None or   *)
(* the coordinate of an occupied cell.                                     *)
C36_FocusOccupied ==
    grid.focused = None \/ grid.focused[1] \in DOMAIN grid.entries

(* C37: every typed event appended to the Window's queue, the initial Init *)
(* event and the events translated from a platform batch that also holds a *)
(* Quit among them, has been taken off the queue and dispatched when exec  *)
(* has returned.                                                           *)
C37_AllDispatched ==
    winPc = "returned" => win.events = << >>

----------------------------------------------------------------------------

Init ==
    /\ list = ListNew
    /\ listLast = Did("new", NoEvent, 0)
    /\ combo = ComboBoxNew
    /\ comboLast = ComboDid("new", NoEvent, "")
    /\ panic = ""
    /\ grid = GridNew
    /\ rects = [w \in GridWidgets |-> WidgetNew(w)]
    /\ gridAdds = << >>
    /\ gridEv = GridEvNew
    /\ win = WindowNew
    /\ winPc = "setup"
    /\ winCur = NoCur
    /\ winHist = HistNew
    /\ winLast = WinStep("new")
    /\ bar = ProgressBarNew
    /\ canvas = Canvas("", TRUE, << >>)

(* The widgets share no state: each is checked under the specification    *)
(* of its own operations.                                                  *)
SpecList == Init /\ [][ListNext]_vars
SpecCombo == Init /\ [][ComboNext]_vars
SpecGrid == Init /\ [][GridNext]_vars
SpecWindow == Init /\ [][WinNext]_vars
SpecDraw == Init /\ [][DrawNext]_vars
SpecGridEvent == Init /\ [][GridEventNext]_vars

Next == ListNext \/ ComboNext \/ GridNext \/ GridEventNext \/ WinNext \/ DrawNext
Spec == Init /\ [][Next]_vars

=============================================================================
